---- MODULE Spec2Model ----
(***************************************************************************)
(* Model of the post/comment store of src/app/page.tsx: the state of the   *)
(* IdeaSharingPlatform component, its event handlers, the load timer that  *)
(* its effect schedules, and the PostCard handlers that call back into it. *)
(*                                                                         *)
(* Text is a sequence of one-character strings so that String.trim is      *)
(* computed, not assumed; a seed title is one opaque non-blank token.      *)
(* The local form state of a PostCard (newComment, updatedTitle,           *)
(* updatedContent, editing, showDeleteConfirm) is the input of the         *)
(* PostCard actions; the `post` prop a PostCard handler closes over is the *)
(* post of the last committed render, kept in `view`.                      *)
(***************************************************************************)
EXTENDS Integers, Sequences, FiniteSets, TLC

\* ---------------------------------------------------------------- bounds
MaxEvents == 3   \* clock ticks, dark-mode toggles and feed operations in one run

\* ------------------------------------------------------------------ text
Whitespace == {" ", "\t"}

RECURSIVE trimStart(_)
trimStart(s) ==
    IF s = <<>> THEN <<>>
    ELSE IF Head(s) \in Whitespace THEN trimStart(Tail(s)) ELSE s

RECURSIVE trimEnd(_)
trimEnd(s) ==
    IF s = <<>> THEN <<>>
    ELSE IF s[Len(s)] \in Whitespace THEN trimEnd(SubSeq(s, 1, Len(s) - 1)) ELSE s

\* String.prototype.trim
trim(s) == trimEnd(trimStart(s))

\* `!s.trim()`: the empty string is the only falsy string
IsBlankNoTrim(s) == s = <<>>
IsBlank(s) == trim(s) = <<>>

\* what the user types into the fields of the create form, of the edit form
\* of a card and of the comment form of a card
FormInputs == { <<>>, <<" ", "\t">>, <<"T">> }
EditInputs == { <<>>, <<"\t">>, <<" ", "N", " ">> }
CommentInputs == { <<>>, <<" ", " ">>, <<"h", "i">> }

\* ------------------------------------------------------------- seed data
currentUser == [name |-> "You", avatar |-> ""]

initialPosts == <<
    [id |-> 1,
     title |-> <<"The Future of AI in Healthcare">>,
     content |-> <<"Artificial Intelligence is transforming the healthcare industry ...">>,
     author |-> "Dr. Jane Smith",
     date |-> "2024-03-15T10:30:00Z",
     comments |-> <<
        [id |-> 1, content |-> <<"This is a game-changer for early disease detection! ...">>,
         author |-> "John Doe", date |-> "2024-03-15T11:45:00Z"],
        [id |-> 2, content |-> <<"AI will revolutionize medical research and treatment. ...">>,
         author |-> "Sarah Johnson", date |-> "2024-03-15T12:10:00Z"] >>,
     likes |-> 25,
     isLiked |-> FALSE],
    [id |-> 2,
     title |-> <<"Sustainable Living: Small Changes, Big Impact">>,
     content |-> <<"Climate change is one of the most pressing issues of our time. ...">>,
     author |-> "Michael Green",
     date |-> "2024-03-14T14:20:00Z",
     comments |-> <<
        [id |-> 1, content |-> <<"Great tips! I never thought about the impact of my daily commute. ...">>,
         author |-> "Emily Chen", date |-> "2024-03-14T15:35:00Z"] >>,
     likes |-> 18,
     isLiked |-> FALSE],
    [id |-> 3,
     title |-> <<"The Rise of Remote Work: Challenges and Opportunities">>,
     content |-> <<"Remote work has transformed from a rare perk to a mainstream work arrangement. ...">>,
     author |-> "Alex Rivera",
     date |-> "2024-03-10T09:15:00Z",
     comments |-> <<>>,
     likes |-> 12,
     isLiked |-> FALSE] >>

initialUsers == <<
    [name |-> "Dr. Jane Smith", avatar |-> ""],
    [name |-> "John Doe", avatar |-> ""],
    [name |-> "Sarah Johnson", avatar |-> ""],
    [name |-> "Michael Green", avatar |-> ""],
    [name |-> "Emily Chen", avatar |-> ""],
    [name |-> "Alex Rivera", avatar |-> ""],
    [name |-> "You", avatar |-> ""] >>

\* ----------------------------------------------------------------- clock
\* Date.now() at the start of the session: a millisecond timestamp, far
\* above the seed ids 1, 2, 3
SessionStart == 1000 * 1000

\* new Date().toISOString()
toISOString(t) == "T+" \o ToString(t - SessionStart) \o "ms"

\* --------------------------------------------------------------- state
VARIABLES
    posts,            \* useState<Post[]>([])
    users,            \* useState<User[]>([])
    newPostTitle,     \* useState("")
    newPostContent,   \* useState("")
    postError,        \* useState("")
    activeTab,        \* useState<"feed" | "create">("feed")
    darkMode,         \* useState(false)
    isLoading,        \* useState(true)
    timers,           \* load timers scheduled by the effect and not yet fired
    now,              \* the value Date.now() returns
    view,             \* the last committed render: what the handlers close over
    loadsScheduled,   \* history: number of load timers scheduled so far
    events,           \* history: clock ticks, toggles and feed operations so far
    last              \* history: the store operation of the latest step

vars == <<posts, users, newPostTitle, newPostContent, postError, activeTab,
          darkMode, isLoading, timers, now, view, loadsScheduled, events, last>>

NoOp == [op |-> "none", id |-> 0, hit |-> FALSE]

Ids(ps) == { ps[i].id : i \in DOMAIN ps }

\* ------------------------------------------------- the setPosts updaters
\* handleCreatePost: the new post object
NewPost(title, content, t) ==
    [id |-> t, title |-> title, content |-> content, author |-> currentUser.name,
     date |-> toISOString(t), comments |-> <<>>, likes |-> 0, isLiked |-> FALSE]

\* handleCreatePost: (prevPosts) => [newPost, ...prevPosts]
AppendPost(newPost, prevPosts) == Append(prevPosts, newPost)

PrependPost(newPost, prevPosts) == <<newPost>> \o prevPosts

\* handleCommentSubmit: the new comment object
NewComment(comment, t) ==
    [id |-> t, content |-> comment, author |-> currentUser.name,
     date |-> toISOString(t)]

\* handleCommentSubmit: prevPosts.map(...)
AddComment(prevPosts, postId, comment, t) ==
    [i \in DOMAIN prevPosts |->
        IF prevPosts[i].id = postId
        THEN [prevPosts[i] EXCEPT !.comments = Append(@, NewComment(comment, t))]
        ELSE prevPosts[i]]

\* handleLike: prevPosts.map(...)
ToggleLikeNoUnlike(prevPosts, postId) ==
    [i \in DOMAIN prevPosts |->
        IF prevPosts[i].id = postId
        THEN [prevPosts[i] EXCEPT !.likes = @ + 1, !.isLiked = ~@]
        ELSE prevPosts[i]]

ToggleLike(prevPosts, postId) ==
    [i \in DOMAIN prevPosts |->
        IF prevPosts[i].id = postId
        THEN [prevPosts[i] EXCEPT
                !.likes = IF prevPosts[i].isLiked THEN @ - 1 ELSE @ + 1,
                !.isLiked = ~@]
        ELSE prevPosts[i]]

\* handleDelete: prevPosts.filter((post) => post.id !== postId)
DeletePost(prevPosts, postId) ==
    SelectSeq(prevPosts, LAMBDA post : post.id # postId)

\* handleUpdate: prevPosts.map((post) => post.id === postId ? updatedPost : post)
UpdateOrInsert(prevPosts, postId, updatedPost) ==
    IF \E i \in DOMAIN prevPosts : prevPosts[i].id = postId
    THEN [i \in DOMAIN prevPosts |->
            IF prevPosts[i].id = postId THEN updatedPost ELSE prevPosts[i]]
    ELSE Append(prevPosts, updatedPost)

UpdatePost(prevPosts, postId, updatedPost) ==
    [i \in DOMAIN prevPosts |->
        IF prevPosts[i].id = postId THEN updatedPost ELSE prevPosts[i]]

\* the render that follows a state change: the props of the next handlers
Rendered(loading, ps) == [isLoading |-> loading, posts |-> ps]

\* ------------------------------------------------------------------ Init
\* the component is mounted and its effect has run once
Init ==
    /\ posts = <<>>
    /\ users = <<>>
    /\ newPostTitle = <<>>
    /\ newPostContent = <<>>
    /\ postError = ""
    /\ activeTab = "feed"
    /\ darkMode = FALSE
    /\ isLoading = TRUE
    /\ timers = 1
    /\ now = SessionStart
    /\ view = Rendered(TRUE, <<>>)
    /\ loadsScheduled = 1
    /\ last = NoOp
    /\ events = 0

\* -------------------------------------------------------------- actions
\* the wall clock advances
Tick ==
    /\ events < MaxEvents
    /\ events' = events + 1
    /\ now' = now + 1
    /\ last' = NoOp
    /\ UNCHANGED <<posts, users, newPostTitle, newPostContent, postError,
                   activeTab, darkMode, isLoading, timers, view, loadsScheduled>>

\* the setTimeout callback of the effect
LoadTimerSkipsUsers ==
    /\ timers > 0
    /\ timers' = timers - 1
    /\ posts' = initialPosts
    /\ isLoading' = FALSE
    /\ last' = [op |-> "load", id |-> 0, hit |-> TRUE]
    /\ UNCHANGED <<users, newPostTitle, newPostContent, postError, activeTab,
                   darkMode, now, view, loadsScheduled, events>>

LoadTimerFires ==
    /\ UNCHANGED events
    /\ timers > 0
    /\ timers' = timers - 1
    /\ posts' = initialPosts
    /\ users' = initialUsers
    /\ isLoading' = FALSE
    /\ last' = [op |-> "load", id |-> 0, hit |-> TRUE]
    /\ UNCHANGED <<newPostTitle, newPostContent, postError, activeTab,
                   darkMode, now, view, loadsScheduled>>

\* React commits the render scheduled by the timer callback
Render ==
    /\ UNCHANGED events
    /\ view # Rendered(isLoading, posts)
    /\ view' = Rendered(isLoading, posts)
    /\ last' = NoOp
    /\ UNCHANGED <<posts, users, newPostTitle, newPostContent, postError,
                   activeTab, darkMode, isLoading, timers, now, loadsScheduled>>

\* toggleDarkMode, then the effect that depends on [darkMode] runs again
ToggleDarkMode ==
    /\ events < MaxEvents
    /\ events' = events + 1
    /\ darkMode' = ~darkMode
    /\ timers' = timers + 1
    /\ loadsScheduled' = loadsScheduled + 1
    /\ view' = Rendered(isLoading, posts)
    /\ last' = NoOp
    /\ UNCHANGED <<posts, users, newPostTitle, newPostContent, postError,
                   activeTab, isLoading, now>>

\* the two navigation tabs (and the "Share an Idea" button of the empty feed)
SetActiveTab(tab) ==
    /\ UNCHANGED events
    /\ activeTab # tab
    /\ activeTab' = tab
    /\ view' = Rendered(isLoading, posts)
    /\ last' = NoOp
    /\ UNCHANGED <<posts, users, newPostTitle, newPostContent, postError,
                   darkMode, isLoading, timers, now, loadsScheduled>>

\* the create form is rendered
FormShownWhileLoading == activeTab = "create"

FormShown == ~view.isLoading /\ activeTab = "create"

\* the post cards are rendered
FeedShown == ~view.isLoading /\ activeTab = "feed"

\* onChange of the title input
TypeTitle(v) ==
    /\ UNCHANGED events
    /\ FormShown
    /\ newPostTitle # v
    /\ newPostTitle' = v
    /\ postError' = IF ~IsBlank(v) THEN "" ELSE postError
    /\ view' = Rendered(isLoading, posts)
    /\ last' = NoOp
    /\ UNCHANGED <<posts, users, newPostContent, activeTab, darkMode,
                   isLoading, timers, now, loadsScheduled>>

\* onChange of the content textarea
TypeContent(v) ==
    /\ UNCHANGED events
    /\ FormShown
    /\ newPostContent # v
    /\ newPostContent' = v
    /\ postError' = IF ~IsBlank(v) THEN "" ELSE postError
    /\ view' = Rendered(isLoading, posts)
    /\ last' = NoOp
    /\ UNCHANGED <<posts, users, newPostTitle, activeTab, darkMode,
                   isLoading, timers, now, loadsScheduled>>

\* handleCreatePost
handleCreatePost ==
    /\ FormShown
    /\ IF IsBlank(newPostTitle)
       THEN /\ postError' = "Please provide a title for your post"
            /\ last' = [op |-> "createPostRejected", id |-> 0, hit |-> FALSE]
            /\ UNCHANGED <<posts, newPostTitle, newPostContent, activeTab, events>>
       ELSE IF IsBlank(newPostContent)
       THEN /\ postError' = "Please provide content for your post"
            /\ last' = [op |-> "createPostRejected", id |-> 0, hit |-> FALSE]
            /\ UNCHANGED <<posts, newPostTitle, newPostContent, activeTab, events>>
       ELSE /\ events < MaxEvents
            /\ events' = events + 1
            /\ postError' = ""
            /\ posts' = PrependPost(NewPost(newPostTitle, newPostContent, now), posts)
            /\ newPostTitle' = <<>>
            /\ newPostContent' = <<>>
            /\ activeTab' = "feed"
            /\ last' = [op |-> "createPost", id |-> now, hit |-> TRUE]
    /\ view' = Rendered(isLoading, posts')
    /\ UNCHANGED <<users, darkMode, isLoading, timers, now, loadsScheduled>>

\* IdeaSharingPlatform.handleCommentSubmit
handleCommentSubmit(postId, comment) ==
    /\ IF IsBlank(comment)
       THEN /\ posts' = posts
            /\ last' = [op |-> "addCommentRejected", id |-> postId, hit |-> postId \in Ids(posts)]
       ELSE /\ posts' = AddComment(posts, postId, comment, now)
            /\ last' = [op |-> "addComment", id |-> postId, hit |-> postId \in Ids(posts)]
    /\ view' = Rendered(isLoading, posts')
    /\ UNCHANGED <<users, newPostTitle, newPostContent, postError, activeTab,
                   darkMode, isLoading, timers, now, loadsScheduled>>

\* PostCard.handleCommentSubmit of the i-th rendered card
CardCommentSubmit(i, newComment) ==
    /\ FeedShown
    /\ i \in DOMAIN view.posts
    /\ IF IsBlank(newComment)
       THEN /\ last' = [op |-> "commentError", id |-> view.posts[i].id, hit |-> FALSE]
            /\ UNCHANGED events
            /\ view' = Rendered(isLoading, posts)
            /\ UNCHANGED <<posts, users, newPostTitle, newPostContent, postError,
                           activeTab, darkMode, isLoading, timers, now, loadsScheduled>>
       ELSE /\ events < MaxEvents
            /\ events' = events + 1
            /\ handleCommentSubmit(view.posts[i].id, newComment)

\* handleLike, from the Like button of the i-th rendered card
handleLike(postId) ==
    /\ posts' = ToggleLike(posts, postId)
    /\ last' = [op |-> "toggleLike", id |-> postId, hit |-> postId \in Ids(posts)]
    /\ view' = Rendered(isLoading, posts')
    /\ UNCHANGED <<users, newPostTitle, newPostContent, postError, activeTab,
                   darkMode, isLoading, timers, now, loadsScheduled>>

CardLike(i) ==
    /\ events < MaxEvents
    /\ events' = events + 1
    /\ FeedShown
    /\ i \in DOMAIN view.posts
    /\ handleLike(view.posts[i].id)

\* handleDelete
handleDelete(postId) ==
    /\ posts' = DeletePost(posts, postId)
    /\ last' = [op |-> "deletePost", id |-> postId, hit |-> postId \in Ids(posts)]
    /\ view' = Rendered(isLoading, posts')
    /\ UNCHANGED <<users, newPostTitle, newPostContent, postError, activeTab,
                   darkMode, isLoading, timers, now, loadsScheduled>>

\* the Edit and Delete buttons are rendered for the session user's posts only
AnyCard(i) == TRUE

OwnCard(i) == view.posts[i].author = "You"

\* the Delete button of the confirmation dialog of the i-th rendered card
CardDeleteConfirm(i) ==
    /\ events < MaxEvents
    /\ events' = events + 1
    /\ FeedShown
    /\ i \in DOMAIN view.posts
    /\ OwnCard(i)
    /\ handleDelete(view.posts[i].id)

\* handleUpdate
handleUpdate(postId, updatedPost) ==
    /\ posts' = UpdatePost(posts, postId, updatedPost)
    /\ last' = [op |-> "updatePost", id |-> postId, hit |-> postId \in Ids(posts)]
    /\ view' = Rendered(isLoading, posts')
    /\ UNCHANGED <<users, newPostTitle, newPostContent, postError, activeTab,
                   darkMode, isLoading, timers, now, loadsScheduled>>

\* PostCard.handleUpdateSubmit of the i-th rendered card
CardUpdateSubmit(i, updatedTitle, updatedContent) ==
    /\ events < MaxEvents
    /\ events' = events + 1
    /\ FeedShown
    /\ i \in DOMAIN view.posts
    /\ OwnCard(i)
    /\ ~IsBlank(updatedTitle)
    /\ ~IsBlank(updatedContent)
    /\ handleUpdate(view.posts[i].id,
                    [view.posts[i] EXCEPT !.title = updatedTitle,
                                          !.content = updatedContent])

Next ==
    \/ Tick
    \/ LoadTimerFires
    \/ Render
    \/ ToggleDarkMode
    \/ \E tab \in {"feed", "create"} : SetActiveTab(tab)
    \/ \E v \in FormInputs : TypeTitle(v)
    \/ \E v \in FormInputs : TypeContent(v)
    \/ handleCreatePost
    \/ \E i \in DOMAIN view.posts, c \in CommentInputs : CardCommentSubmit(i, c)
    \/ \E i \in DOMAIN view.posts : CardLike(i)
    \/ \E i \in DOMAIN view.posts : CardDeleteConfirm(i)
    \/ \E i \in DOMAIN view.posts, t \in EditInputs, c \in EditInputs : CardUpdateSubmit(i, t, c)

Spec == Init /\ [][Next]_vars

\* ------------------------------------------------------------ properties
\* a text with no character other than white space (the empty text included)
OnlyWhitespace(s) == \A k \in DOMAIN s : s[k] \in Whitespace

\* the sequence s without its i-th element
RemoveAt(s, i) == SubSeq(s, 1, i - 1) \o SubSeq(s, i + 1, Len(s))

FeedOps == {"addComment", "toggleLike", "deletePost", "updatePost"}

\* C1: posts leave the feed only through deletePost: every id that is in the
\* feed before a step is in the feed after it, unless the step is deletePost
\* called with that id.
C1_PostsLeaveOnlyByDelete ==
    [][\A id \in Ids(posts) :
          \/ id \in Ids(posts')
          \/ last'.op = "deletePost" /\ last'.id = id]_vars

\* C2: the load is performed exactly once per session: at most one load timer
\* is ever scheduled and the seed data is written into the store at most once.
SeedWrites == loadsScheduled - timers
C2_LoadOnce == loadsScheduled <= 1 /\ SeedWrites <= 1

\* C3: no two posts of the feed have the same id.
C3_UniquePostIds ==
    \A i, j \in DOMAIN posts : posts[i].id = posts[j].id => i = j

\* C4: deletePost(P.id) for a post P of the feed removes exactly P: the new
\* feed is the old feed without P, one shorter, and deleting the same id once
\* more changes nothing.
C4_DeleteRemovesExactlyP ==
    [][(last'.op = "deletePost" /\ last'.id \in Ids(posts)) =>
          /\ \E i \in DOMAIN posts :
                posts[i].id = last'.id /\ posts' = RemoveAt(posts, i)
          /\ Len(posts') = Len(posts) - 1
          /\ DeletePost(posts', last'.id) = posts']_vars

\* C5: addComment(P.id, text) with a non-blank text appends one comment of the
\* session user to P and leaves every other post of the feed unchanged.
C5_AddCommentFrame ==
    [][(last'.op = "addComment" /\ last'.id \in Ids(posts)) =>
          \E i \in DOMAIN posts :
             /\ posts[i].id = last'.id
             /\ DOMAIN posts' = DOMAIN posts
             /\ Len(posts'[i].comments) = Len(posts[i].comments) + 1
             /\ SubSeq(posts'[i].comments, 1, Len(posts[i].comments)) = posts[i].comments
             /\ posts'[i].comments[Len(posts'[i].comments)].author = "You"
             /\ \A j \in DOMAIN posts : j # i => posts'[j] = posts[j]]_vars

\* C6: a createPost with a non-blank title and a non-blank content makes the
\* feed one longer, puts the new post at the head, keeps the earlier posts
\* unchanged and in order behind it, and the new post has no comments, 0 likes,
\* is not liked and is authored by the session user.
C6_CreatePrepends ==
    [][(last'.op \in {"createPost", "createPostRejected"}
        /\ ~OnlyWhitespace(newPostTitle) /\ ~OnlyWhitespace(newPostContent)) =>
          /\ last'.op = "createPost"
          /\ Len(posts') = Len(posts) + 1
          /\ SubSeq(posts', 2, Len(posts')) = posts
          /\ posts'[1].title = newPostTitle
          /\ posts'[1].content = newPostContent
          /\ posts'[1].comments = <<>>
          /\ posts'[1].likes = 0
          /\ posts'[1].isLiked = FALSE
          /\ posts'[1].author = "You"]_vars

C6_Witness ==
    /\ last.op = "createPost"
    /\ Len(posts) = Len(initialPosts) + 1
    /\ posts[1].author = "You"
    /\ posts[1].title = <<"T">>

\* C7: a createPost whose title or content is empty or only white space sets a
\* non-empty error message and leaves the feed as it was.
C7_CreateRejectsBlank ==
    [][(last'.op \in {"createPost", "createPostRejected"}
        /\ (OnlyWhitespace(newPostTitle) \/ OnlyWhitespace(newPostContent))) =>
          /\ last'.op = "createPostRejected"
          /\ postError' # ""
          /\ posts' = posts]_vars

C7_Witness ==
    /\ last.op = "createPostRejected"
    /\ postError # ""
    /\ newPostTitle # <<>>
    /\ OnlyWhitespace(newPostTitle)

\* C8: updatePost(P.id, newTitle, newContent) for a post P of the feed changes
\* only the title and the content of P: its other fields, its position and
\* every other post are as before.
C8_UpdateFrame ==
    [][(last'.op = "updatePost" /\ last'.id \in Ids(posts)) =>
          \E i \in DOMAIN posts :
             /\ posts[i].id = last'.id
             /\ DOMAIN posts' = DOMAIN posts
             /\ posts'[i] = [posts[i] EXCEPT !.title = posts'[i].title,
                                             !.content = posts'[i].content]
             /\ \A j \in DOMAIN posts : j # i => posts'[j] = posts[j]]_vars

\* C9: one toggleLike(P.id) flips P's liked flag and moves its like count by
\* +1 (not liked before) or -1 (liked before); two in succession give back
\* the like count and the liked flag P had.
C9_LikeTwiceRestores ==
    \A i \in DOMAIN posts :
        LET once == ToggleLike(posts, posts[i].id)
            twice == ToggleLike(once, posts[i].id)
        IN  /\ twice[i].likes = posts[i].likes
            /\ twice[i].isLiked = posts[i].isLiked

C9_LikeStep ==
    (last'.op = "toggleLike") =>
        \A i \in DOMAIN posts : posts[i].id = last'.id =>
            /\ posts'[i].isLiked = ~posts[i].isLiked
            /\ posts'[i].likes = posts[i].likes + (IF posts[i].isLiked THEN -1 ELSE 1)

C9_ToggleLike == []C9_LikeTwiceRestores /\ [][C9_LikeStep]_vars

\* the latest step unliked a post: it was liked by an earlier toggleLike
C9_Witness ==
    /\ last.op = "toggleLike"
    /\ last.hit
    /\ \E i \in DOMAIN posts : posts[i].id = last.id /\ ~posts[i].isLiked

\* C10: addComment, toggleLike, deletePost and updatePost called with an id
\* that no post of the feed has leave the feed and the error message unchanged.
C10_UnknownIdNoOp ==
    [][(last'.op \in FeedOps /\ last'.id \notin Ids(posts)) =>
          posts' = posts /\ postError' = postError]_vars

C10_Witness ==
    /\ last.op = "updatePost"
    /\ ~last.hit
    /\ posts = initialPosts

MutationOps == {"createPost", "addComment", "toggleLike", "deletePost", "updatePost"}

\* C11: while the store is loading the render shows the spinner instead of the
\* feed and the forms, the posts collection is empty, and no step is a
\* createPost, addComment, toggleLike, deletePost or updatePost.
C11_LoadingGate ==
    /\ [](isLoading => posts = <<>> /\ view.isLoading /\ view.posts = <<>>)
    /\ [][isLoading => last'.op \notin MutationOps]_vars

\* the user has switched tab and toggled dark mode while the load is pending
C11_Witness ==
    /\ isLoading
    /\ activeTab = "create"
    /\ darkMode

\* C12: right after a load resolves the store is ready, the feed is the 3
\* seed posts with ids 1, 2, 3 in that order and 2, 1 and 0 comments, and
\* the user registry holds the 7 seed users.
C12_SeedLoad ==
    last.op = "load" =>
        /\ ~isLoading
        /\ posts = initialPosts
        /\ Len(posts) = 3
        /\ <<posts[1].id, posts[2].id, posts[3].id>> = <<1, 2, 3>>
        /\ <<Len(posts[1].comments), Len(posts[2].comments), Len(posts[3].comments)>>
              = <<2, 1, 0>>
        /\ Len(users) = 7
        /\ \A i, j \in DOMAIN users : users[i].name = users[j].name => i = j

\* the first load has resolved and nothing else has happened
C12_Witness ==
    /\ last.op = "load"
    /\ events = 0
    /\ loadsScheduled = 1
    /\ timers = 0

\* the posts of a feed that the session user did not write
OthersPosts(ps) == SelectSeq(ps, LAMBDA post : post.author # "You")

\* C13: deletePost and updatePost reach only posts of the session user: every
\* post of the feed with the addressed id is authored by "You", and the posts
\* of other authors are the same, in the same order, after the step.
C13_OwnPostsOnly ==
    [][last'.op \in {"deletePost", "updatePost"} =>
          /\ \A i \in DOMAIN posts :
                posts[i].id = last'.id => posts[i].author = "You"
          /\ OthersPosts(posts') = OthersPosts(posts)]_vars

\* a post of the session user has been deleted and the seed posts are there
C13_Witness ==
    /\ last.op = "deletePost"
    /\ last.hit
    /\ OthersPosts(posts) = initialPosts

\* C14: an addComment whose text is empty or only white space performs no
\* mutation: whichever card the comment form is submitted from, the feed is
\* the same after the step.
C14_BlankCommentNoOp ==
    [][\A i \in DOMAIN view.posts, c \in CommentInputs :
          (OnlyWhitespace(c) /\ CardCommentSubmit(i, c)) => posts' = posts]_vars

\* a blank comment has been submitted from the card of a post of the feed
C14_Witness ==
    /\ last.op = "commentError"
    /\ last.id \in Ids(posts)

\* a is an initial part of b
IsPrefix(a, b) == Len(a) <= Len(b) /\ SubSeq(b, 1, Len(a)) = a

\* C15: comment sequences are append-only: a post that is in the feed before
\* and after a step has, after the step, a comment sequence that starts with
\* the one it had before.
C15_CommentsAppendOnly ==
    [][\A i \in DOMAIN posts :
          posts[i].id \in Ids(posts') =>
             \E j \in DOMAIN posts' :
                /\ posts'[j].id = posts[i].id
                /\ IsPrefix(posts[i].comments, posts'[j].comments)]_vars

\* C16: no two comments of one post have the same id.
C16_UniqueCommentIds ==
    \A i \in DOMAIN posts :
        \A a, b \in DOMAIN posts[i].comments :
            posts[i].comments[a].id = posts[i].comments[b].id => a = b

\* the like count a post starts with: the seed's count, 0 for a created post
InitialLikes(id) ==
    IF \E k \in DOMAIN initialPosts : initialPosts[k].id = id
    THEN (CHOOSE q \in { initialPosts[k] : k \in DOMAIN initialPosts } : q.id = id).likes
    ELSE 0

\* like counts are never negative, and a count is the initial count plus 1
\* when the post is liked and the initial count when it is not
C17_LikeState ==
    \A i \in DOMAIN posts :
        /\ posts[i].likes >= 0
        /\ posts[i].isLiked => posts[i].likes >= 1
        /\ posts[i].likes = InitialLikes(posts[i].id) + (IF posts[i].isLiked THEN 1 ELSE 0)

\* a post that stays in the feed keeps its like count and its liked flag unless
\* the step is toggleLike called with its id
C17_LikeChange ==
    \A i \in DOMAIN posts :
        posts[i].id \in Ids(posts') =>
            \/ last'.op = "toggleLike" /\ last'.id = posts[i].id
            \/ \E j \in DOMAIN posts' :
                  /\ posts'[j].id = posts[i].id
                  /\ posts'[j].likes = posts[i].likes
                  /\ posts'[j].isLiked = posts[i].isLiked

\* C17: in every state like counts are non-negative and tied to the liked
\* flag (initial count, plus 1 when liked), and the like count and the liked
\* flag change only through toggleLike.
C17_LikesOnlyByToggle == []C17_LikeState /\ [][C17_LikeChange]_vars

====
